---------------------------- MODULE Spec2Model ----------------------------
(***************************************************************************)
(* A model of the tenant isolation core of UniAISeller:                    *)
(*   core/store_context.py  StoreContext  (path gate, load/validate,       *)
(*                                          reload, save_data)             *)
(*   core/registry.py       StoreRegistry (load_all, reload_store, lookups)*)
(*                                                                         *)
(* Strings are sequences of one-character strings, so that str.lower(),    *)
(* str.startswith() and the "/" splitting of pathlib are computed, not     *)
(* assumed.  A path is a sequence of components (each a string); the       *)
(* empty sequence is the filesystem root "/".                              *)
(***************************************************************************)
EXTENDS Integers, Sequences, FiniteSets, TLC

VARIABLES
    \* ---- filesystem seen by one StoreContext (specification SpecPath) ----
    fsDirs,       \* set of paths that are directories
    fsFiles,      \* set of paths that are regular files
    subPath,      \* the sub-path / filename handed to the context
    pathOps,      \* number of file operations made so far
    pathOut,      \* outcome of the last StoreContext file operation
    \* ---- registry and its tenants (specification Spec) ----
    rootExists,   \* the stores root directory exists on disk
    disk,         \* folder name -> contents of the tenant directory, or Absent
    writes,       \* number of external changes made to the disk so far
    stores,       \* StoreRegistry.stores : slug -> StoreContext
    engines,      \* StoreRegistry.engines: slug -> engine handle
    calls,        \* number of load_all / reload_store calls started so far
    pc,           \* position of the running registry call ("idle": none)
    call,         \* arguments and locals of the running / last registry call
    new_stores,   \* load_all local new_stores
    new_engines,  \* load_all local new_engines
    todo,         \* load_all: the part of the directory listing not yet visited
    outcome,      \* load_all: what the scan did with each folder it visited
    storesPub,    \* call number that last bound self.stores
    enginesPub,   \* call number that last bound self.engines
    seen,         \* what the last reader task observed
    \* ---- a webhook request in flight (specification SpecFlight) ----
    flight,       \* the request: its position, the engine it holds, what it read
    \* ---- engine handles and their close() (specification SpecLife) ----
    retired,      \* engines that were registered and are no longer
    closed,       \* engines whose close() was called
    cleanup,      \* PlatformKernel._on_cleanup: its position and loop variable
    \* ---- one RetrievalEngine and its searches (specification SpecSearch) ----
    retrieval,    \* the RetrievalEngine: products, available_categories, index
    searchCall,   \* the last search call: its inputs and how it ended
    \* ---- file writes of one tenant's requests (specification SpecWrite) ----
    patchFile,    \* troll_patterns of the tenant's fsm_soft_patch.json
    dataFile,     \* what the tenant's file under data/ holds
    tasks         \* the request tasks: their position, text and locals

pathVars == <<fsDirs, fsFiles, subPath, pathOps, pathOut>>
regVars  == <<rootExists, disk, writes, stores, engines, calls, pc, call,
              new_stores, new_engines, todo, outcome, storesPub,
              enginesPub, seen>>
lifeVars == <<retired, closed, cleanup>>
findVars == <<retrieval, searchCall>>
writeVars == <<patchFile, dataFile, tasks>>
vars     == <<pathVars, regVars, flight, lifeVars, findVars, writeVars>>

-----------------------------------------------------------------------------
(* Bounds of the model *)

MaxSegs == 3        \* segments in a sub-path handed to a StoreContext
MaxPathOps == 2     \* file operations made through one StoreContext
MaxCalls == 2       \* load_all / reload_store calls in one behaviour
MaxDiskWrites == 1  \* external changes to the stores directory

-----------------------------------------------------------------------------
(* Strings *)

Str_data    == <<"d","a","t","a">>
Str_dotdot  == <<".",".">>
Str_dot     == <<".">>
Str_shop    == <<"s","h","o","p">>
Str_Shop    == <<"S","h","o","p">>
Str_shop2   == <<"s","h","o","p","2">>
Str_pets    == <<"p","e","t","s">>
Str_bad     == <<"b","!">>
Str_hidden  == <<".","g","i","t">>
Str_stores  == <<"s","t","o","r","e","s">>
Str_config  == <<"c","o","n","f","i","g",".","j","s","o","n">>
Str_x       == <<"x">>
Slash       == <<"/">>

UpperToLower ==
    [c \in {"S", "P", "B", "M", "I"} |->
        CASE c = "S" -> "s" [] c = "P" -> "p" [] c = "B" -> "b"
          [] c = "M" -> "m" [] c = "I" -> "i"]

\* str.lower()
Lower(s) == [i \in 1..Len(s) |-> IF s[i] \in DOMAIN UpperToLower
                                   THEN UpperToLower[s[i]] ELSE s[i]]

\* str.startswith(prefix)
StartsWith(s, prefix) ==
    /\ Len(prefix) <= Len(s)
    /\ \A i \in 1..Len(prefix) : s[i] = prefix[i]

RECURSIVE SplitAt(_, _, _, _)
SplitAt(s, i, cur, acc) ==
    IF i > Len(s) THEN Append(acc, cur)
    ELSE IF s[i] = "/" THEN SplitAt(s, i + 1, <<>>, Append(acc, cur))
    ELSE SplitAt(s, i + 1, Append(cur, s[i]), acc)

\* str.split("/")
Split(s) == SplitAt(s, 1, <<>>, <<>>)

RECURSIVE JoinFrom(_, _)
JoinFrom(parts, i) ==
    IF i > Len(parts) THEN <<>>
    ELSE Slash \o parts[i] \o JoinFrom(parts, i + 1)

\* str(path) of an absolute path: "/" alone for the filesystem root
PathStr(parts) == IF parts = <<>> THEN Slash ELSE JoinFrom(parts, 1)

-----------------------------------------------------------------------------
(* pathlib *)

\* PurePosixPath parsing of a string: empty and "." components are dropped
PathParts(s) == SelectSeq(Split(s), LAMBDA c : c # <<>> /\ c # Str_dot)

IsAbsolute(s) == Len(s) > 0 /\ s[1] = "/"

\* base / sub : an absolute right operand replaces the left one
PathJoin(base, sub) ==
    IF IsAbsolute(sub) THEN PathParts(sub) ELSE base \o PathParts(sub)

RECURSIVE ResolveFrom(_, _, _)
ResolveFrom(parts, i, acc) ==
    IF i > Len(parts) THEN acc
    ELSE IF parts[i] = Str_dotdot
         THEN ResolveFrom(parts, i + 1,
                          IF acc = <<>> THEN acc ELSE SubSeq(acc, 1, Len(acc) - 1))
         ELSE ResolveFrom(parts, i + 1, Append(acc, parts[i]))

\* Path.resolve() on a tree without symbolic links: ".." pops a component
\* and stays at "/" when there is none
Resolve(parts) == ResolveFrom(parts, 1, <<>>)

\* Path.parent
Parent(parts) == IF parts = <<>> THEN parts ELSE SubSeq(parts, 1, Len(parts) - 1)

\* p is q or lies below q, component by component
IsWithin(p, q) == Len(q) <= Len(p) /\ SubSeq(p, 1, Len(q)) = q

-----------------------------------------------------------------------------
(* StoreContext: the path gate and the file operations *)

\* self.path of the context under study, and its writable sub-directory
TenantRoot == <<Str_stores, Str_shop>>
SiblingRoot == <<Str_stores, Str_shop2>>
DataDir == Append(TenantRoot, Str_data)

\* store_context.py:43  str(safe_path).startswith(str(self.path))
SafeCheck(safe_path, root) == StartsWith(PathStr(safe_path), PathStr(root))

\* StoreContext._get_safe_path: [ok, path]; ok = FALSE is PermissionError
GetSafePath(root, sub_path) ==
    LET safe_path == Resolve(PathJoin(root, sub_path))
    IN  IF ~SafeCheck(safe_path, root)
        THEN [ok |-> FALSE, path |-> safe_path]
        ELSE [ok |-> TRUE, path |-> safe_path]

\* store_context.py:125-126  the data/ prefix of save_data
SaveName(filename) ==
    IF ~StartsWith(filename, Str_data \o Slash)
    THEN Str_data \o Slash \o filename
    ELSE filename

\* Path.mkdir(exist_ok=True), without parents=True
MkdirResult(p, dirs, files) ==
    IF p \in dirs THEN "ok"
    ELSE IF p \in files THEN "FileExistsError"
    ELSE IF Parent(p) \in dirs THEN "created"
    ELSE "FileNotFoundError"

\* Sub-paths handed to a StoreContext: up to MaxSegs segments joined by "/",
\* relative or with a leading "/"
Segs == {Str_dotdot, Str_data, Str_shop2, Str_config, Str_x}

RECURSIVE SegStrings(_)
SegStrings(n) ==
    IF n = 1 THEN Segs
    ELSE LET shorter == SegStrings(n - 1)
         IN  shorter \cup {s \o Slash \o g : s \in {t \in shorter : Len(Split(t)) = n - 1}, g \in Segs}

SubPaths == SegStrings(MaxSegs) \cup {Slash \o s : s \in SegStrings(MaxSegs)}

NoPathOp == [op |-> "none", status |-> "none", path |-> <<>>]

\* A file operation of the context on the sub-path at hand
PathOp ==
    /\ pathOps < MaxPathOps
    /\ pathOps' = pathOps + 1
    /\ UNCHANGED <<subPath, regVars>>

\* A direct use of the gate, as every file operation starts with
DoGetSafePath ==
    /\ PathOp
    /\ LET r == GetSafePath(TenantRoot, subPath)
       IN  pathOut' = [op |-> "get_safe_path",
                       status |-> IF r.ok THEN "returned" ELSE "PermissionError",
                       path |-> r.path]
    /\ UNCHANGED <<fsDirs, fsFiles>>

\* StoreContext.exists: PermissionError is caught and answered False
DoExists ==
    /\ PathOp
    /\ LET r == GetSafePath(TenantRoot, subPath)
       IN  pathOut' = [op |-> "exists",
                       status |-> IF ~r.ok THEN "False"
                                  ELSE IF r.path \in fsDirs \cup fsFiles THEN "True"
                                  ELSE "False",
                       path |-> r.path]
    /\ UNCHANGED <<fsDirs, fsFiles>>

\* StoreContext._read_json_file, up to the open()
DoReadJsonFile ==
    /\ PathOp
    /\ LET r == GetSafePath(TenantRoot, subPath)
       IN  pathOut' = [op |-> "read_json_file",
                       status |-> IF ~r.ok THEN "PermissionError"
                                  ELSE IF r.path \notin fsDirs \cup fsFiles
                                       THEN "FileNotFoundError"
                                  ELSE IF r.path \in fsDirs THEN "IsADirectoryError"
                                  ELSE "opened",
                       path |-> r.path]
    /\ UNCHANGED <<fsDirs, fsFiles>>

\* StoreContext.save_data
DoSaveData ==
    /\ PathOp
    /\ LET r  == GetSafePath(TenantRoot, SaveName(subPath))
           mk == MkdirResult(Parent(r.path), fsDirs, fsFiles)
       IN  IF ~r.ok
           THEN /\ pathOut' = [op |-> "save_data", status |-> "PermissionError",
                               path |-> r.path]
                /\ UNCHANGED <<fsDirs, fsFiles>>
           ELSE IF mk \notin {"ok", "created"}
           THEN /\ pathOut' = [op |-> "save_data", status |-> mk, path |-> r.path]
                /\ UNCHANGED <<fsDirs, fsFiles>>
           ELSE IF r.path \in fsDirs
           THEN /\ pathOut' = [op |-> "save_data", status |-> "IsADirectoryError",
                               path |-> r.path]
                /\ fsDirs' = fsDirs \cup {Parent(r.path)}
                /\ UNCHANGED fsFiles
           ELSE /\ pathOut' = [op |-> "save_data", status |-> "written",
                               path |-> r.path]
                /\ fsDirs' = fsDirs \cup {Parent(r.path)}
                /\ fsFiles' = fsFiles \cup {r.path}

-----------------------------------------------------------------------------
(* The stores directory: tenant folders and their three JSON files *)

\* Entries of the stores root.  TenantNames are the folders the environment
\* creates, edits and removes; the other two are always there, complete.
TenantNames == {Str_shop, Str_Shop, Str_pets}
FixedNames  == {Str_bad, Str_hidden}
Names       == TenantNames \cup FixedNames

\* StoreContext.REQUIRED_KEYS
REQUIRED_KEYS == <<"bot_token", "store_name", "indexing_fields", "filters">>

RequiredKeySet == {REQUIRED_KEYS[i] : i \in 1..Len(REQUIRED_KEYS)}

\* A file is "missing", "badjson" (not JSON) or holds a JSON value.
\* config.json: an object given by its key set, its config_version ("none":
\* no such key, "text": a string where a number is expected) and a tag that
\* tells two editions apart.
NoFile(kind) == [kind |-> kind, keys |-> {}, version |-> "none", tag |-> "none"]
Config(keys, version, tag) ==
    [kind |-> "object", keys |-> keys, version |-> version, tag |-> tag]

ConfigMenu ==
    {NoFile("missing"),
     Config(RequiredKeySet, "1", "c1"),
     Config(RequiredKeySet, "none", "c2"),
     Config(RequiredKeySet \ {"filters"}, "1", "c3")}

\* products.json: an array ("list") of items, or an object ("object"); an
\* item is a record ("object") or a scalar
Item(kind, name, category) == [kind |-> kind, name |-> name, category |-> category]
Mat    == Item("object", "Licking mat", "mats")
Bowl   == Item("object", "Bowl", "bowls")
Scalar == Item("scalar", "", "")
Products(kind, items) == [kind |-> kind, items |-> items]

ProductsMenu ==
    {Products("badjson", <<>>), Products("object", <<>>),
     Products("list", <<Mat>>), Products("list", <<Mat, Bowl>>),
     Products("list", <<Mat, Scalar>>)}

\* prompts.json: any JSON value, told apart by a tag
Prompts(kind, tag) == [kind |-> kind, tag |-> tag]

PromptsMenu ==
    {Prompts("missing", "none"), Prompts("object", "p1"), Prompts("object", "p2")}

\* A tenant folder: whether it exists, and its files
Folder(present, config, products, prompts) ==
    [present |-> present, config |-> config, products |-> products,
     prompts |-> prompts]

BaseFolder ==
    Folder(TRUE, Config(RequiredKeySet, "1", "c1"), Products("list", <<Mat>>),
           Prompts("object", "p1"))

NoFolder ==
    Folder(FALSE, NoFile("missing"), Products("missing", <<>>),
           Prompts("missing", "none"))

\* The file `file` of a folder replaced by `val`
WithFile(folder, file, val) ==
    CASE file = "config.json"   -> [folder EXCEPT !.config = val]
      [] file = "products.json" -> [folder EXCEPT !.products = val]
      [] file = "prompts.json"  -> [folder EXCEPT !.prompts = val]

FileMenu(file) ==
    CASE file = "config.json"   -> ConfigMenu
      [] file = "products.json" -> ProductsMenu
      [] file = "prompts.json"  -> PromptsMenu

FileNames == {"config.json", "products.json", "prompts.json"}

\* Every content the three files of a folder are drawn from when a single
\* construction is examined: the menus above, and a config.json that is not
\* JSON or whose config_version is a string, a products.json that is
\* missing, a prompts.json that is not JSON
ConfigShelf ==
    ConfigMenu \cup {NoFile("badjson"), Config(RequiredKeySet, "text", "c4")}

ProductsShelf == ProductsMenu \cup {Products("missing", <<>>)}

PromptsShelf == PromptsMenu \cup {Prompts("badjson", "none")}

-----------------------------------------------------------------------------
(* StoreContext: construction, load and reload *)

\* SLUG_REGEX ^[a-z0-9_-]+$ over the characters the model's names use
SlugChars == {"s", "h", "o", "p", "e", "t", "b", "2", "_", "-"}

\* re.match(r"^[a-z0-9_-]+$", slug): "$" also matches before a final newline
MatchesSlugRegex(slug) ==
    LET body == IF Len(slug) > 0 /\ slug[Len(slug)] = "\n"
                THEN SubSeq(slug, 1, Len(slug) - 1) ELSE slug
    IN  Len(body) > 0 /\ \A i \in 1..Len(body) : body[i] \in SlugChars

\* The fields of a StoreContext as __init__ sets them before loading; gen
\* is the call that constructed the object (its identity), dir the folder
\* it reads
NewContext(dir, gen) ==
    [dir |-> dir, slug |-> Lower(dir), gen |-> gen,
     config |-> Config({}, "none", "empty"),
     products |-> Products("list", <<>>),
     prompts |-> Prompts("object", "empty"),
     faiss |-> "None"]

\* The version comparison of line 53 taken as if it could only log
VersionCheckOnlyLogs(config) == FALSE

\* self._config.get("config_version", 0) < CONFIG_VERSION: the comparison
\* only logs, and raises TypeError when the value is not a number
VersionCheckRaises(config) == config.version = "text"

\* _load_and_validate_all without the check of line 66 that every item of
\* the catalog is a mapping
LoadAndValidateAllNoItemCheck(ctx, folder) ==
    LET c1 == [ctx EXCEPT !.config = folder.config]
        c2 == [c1 EXCEPT !.products = folder.products]
        c3 == [c2 EXCEPT !.prompts = folder.prompts]
    IN  IF ~folder.present \/ folder.config.kind # "object"
        THEN [ctx |-> ctx, raised |-> TRUE]
        ELSE IF VersionCheckRaises(folder.config) THEN [ctx |-> c1, raised |-> TRUE]
        ELSE IF \E i \in 1..Len(REQUIRED_KEYS) : REQUIRED_KEYS[i] \notin folder.config.keys
             THEN [ctx |-> c1, raised |-> TRUE]
        ELSE IF folder.products.kind \in {"missing", "badjson"}
             THEN [ctx |-> c1, raised |-> TRUE]
        ELSE IF folder.products.kind # "list" THEN [ctx |-> c1, raised |-> TRUE]
        ELSE IF folder.prompts.kind \in {"missing", "badjson"}
             THEN [ctx |-> c2, raised |-> TRUE]
        ELSE [ctx |-> c3, raised |-> FALSE]

\* StoreContext._load_and_validate_all on a folder: the context as the call
\* leaves it, and whether the call raised
LoadAndValidateAll(ctx, folder) ==
    LET c1 == [ctx EXCEPT !.config = folder.config]
        c2 == [c1 EXCEPT !.products = folder.products]
        c3 == [c2 EXCEPT !.prompts = folder.prompts]
    IN  IF ~folder.present \/ folder.config.kind # "object"
        THEN [ctx |-> ctx, raised |-> TRUE]
        ELSE IF VersionCheckRaises(folder.config) THEN [ctx |-> c1, raised |-> TRUE]
        ELSE IF \E i \in 1..Len(REQUIRED_KEYS) : REQUIRED_KEYS[i] \notin folder.config.keys
             THEN [ctx |-> c1, raised |-> TRUE]
        ELSE IF folder.products.kind \in {"missing", "badjson"}
             THEN [ctx |-> c1, raised |-> TRUE]
        ELSE IF folder.products.kind # "list" THEN [ctx |-> c1, raised |-> TRUE]
        ELSE IF \E i \in 1..Len(folder.products.items) :
                    folder.products.items[i].kind # "object"
             THEN [ctx |-> c1, raised |-> TRUE]
        ELSE IF folder.prompts.kind \in {"missing", "badjson"}
             THEN [ctx |-> c2, raised |-> TRUE]
        ELSE [ctx |-> c3, raised |-> FALSE]

\* StoreContext.__init__(folder), called by the registry in call `gen`
Construct(dir, folder, gen) ==
    IF ~MatchesSlugRegex(Lower(dir))
    THEN [ctx |-> NewContext(dir, gen), raised |-> TRUE]
    ELSE LoadAndValidateAll(NewContext(dir, gen), folder)

\* reload() without the reset of the lazily loaded index
ReloadKeepingIndex(ctx, folder) == LoadAndValidateAll(ctx, folder)

\* reload() adding the records it reads to the catalog it holds
ReloadAppending(ctx, folder) ==
    LET r == LoadAndValidateAll(ctx, folder)
    IN  IF r.raised THEN r
        ELSE [ctx |-> [r.ctx EXCEPT !.faiss = "None",
                          !.products = Products("list",
                              ctx.products.items \o folder.products.items)],
              raised |-> FALSE]

\* StoreContext.reload()
Reload(ctx, folder) ==
    LET r == LoadAndValidateAll(ctx, folder)
    IN  IF r.raised THEN r
        ELSE [ctx |-> [r.ctx EXCEPT !.faiss = "None"], raised |-> FALSE]

-----------------------------------------------------------------------------
(* StoreRegistry *)

\* An engine handle as the registry sees it: opaque, told apart by the call
\* that built it and the context it was built for
Engine(gen, dir) == [gen |-> gen, dir |-> dir]

\* StoreRegistry._is_valid_slug
IsValidSlug(slug) == MatchesSlugRegex(slug)

\* registry.py:41  folder.name.startswith(".")  (the root holds directories
\* only, so is_dir() is true of every entry)
IsSkippedEntry(name) == StartsWith(name, <<".">>)

\* The collision check reading the live map self.stores instead
IsCollisionWithLive(slug, building, live) == slug \in DOMAIN live

\* registry.py:52  the collision check of load_all reads the map being
\* built, not the live one
IsCollision(slug, building, live) == slug \in DOMAIN building

\* new_stores[slug] = ctx moved up, before the factory is called
RegisterStoreBeforeFactory(building, slug, built, factoryOk) ==
    IF built.raised THEN building
    ELSE (slug :> built.ctx) @@ building

\* registry.py:57-67  what the try block leaves in new_stores: the context
\* is registered only once the constructor and the factory both returned
RegisterStore(building, slug, built, factoryOk) ==
    IF built.raised \/ ~factoryOk THEN building
    ELSE (slug :> built.ctx) @@ building

\* registry.py:57-67  what the try block leaves in new_engines
RegisterEngine(building, slug, engine, built, factoryOk) ==
    IF built.raised \/ ~factoryOk THEN building
    ELSE (slug :> engine) @@ building

\* registry.py:32-35  load_all on a missing root creates it and returns,
\* leaving both maps as they are
EarlyReturnMaps(live, fresh) == live

\* load_all suspending (an await) between its two assignments
LoadAllYieldsBetweenSwaps(p) == p = "la_swap"

\* registry.py:25-71  load_all is a plain function: it never awaits, so no
\* other task of the event loop runs while it is at position p
LoadAllYields(p) == FALSE

\* reload_store without the lowercasing of line 77
ReloadKeyAsGiven(slug) == slug

\* registry.py:77  slug = slug.lower()
ReloadKey(slug) == Lower(slug)

\* A lookup that answers an unknown slug with some registered entry
LookupOrAny(map, slug) ==
    IF Lower(slug) \in DOMAIN map
    THEN [found |-> TRUE, key |-> Lower(slug)]
    ELSE IF DOMAIN map # {}
         THEN [found |-> TRUE, key |-> CHOOSE k \in DOMAIN map : TRUE]
    ELSE [found |-> FALSE, key |-> Lower(slug)]

\* The lookup made with the slug as given, without slug.lower()
LookupAsGiven(map, slug) ==
    IF slug \in DOMAIN map
    THEN [found |-> TRUE, key |-> slug]
    ELSE [found |-> FALSE, key |-> slug]

\* StoreRegistry.get_context / get_engine: dict.get(slug.lower())
Lookup(map, slug) ==
    IF Lower(slug) \in DOMAIN map
    THEN [found |-> TRUE, key |-> Lower(slug)]
    ELSE [found |-> FALSE, key |-> Lower(slug)]

\* StoreRegistry.get_all_slugs
GetAllSlugs == DOMAIN stores

\* The engine factory is the caller's: a call is given the set of folders
\* on whose context the factory raises
FactoryInputs == {{}, {Str_shop}}

\* Path.iterdir() yields the entries in arbitrary order.  The model draws
\* the listing in one of two orders, by name ascending or descending, which
\* between them put every two folders both ways round.
NamesAscending == <<Str_hidden, Str_Shop, Str_bad, Str_pets, Str_shop>>

Reverse(seq) == [i \in 1..Len(seq) |-> seq[Len(seq) + 1 - i]]

Listings(present) ==
    LET asc == SelectSeq(NamesAscending, LAMBDA n : n \in present)
    IN  {asc, Reverse(asc)}

\* Slugs asked of reload_store
Str_nope == <<"n","o","p","e">>
SlugArgs == {Str_shop, Str_Shop, Str_pets, Str_nope}

NoCall ==
    [op |-> "none", arg |-> <<>>, fails |-> {}, result |-> "none",
     reload |-> "none", factory |-> "none"]

NoOutcome == [n \in Names |-> "none"]

Idle == pc = "idle"

\* load_all, lines 30-38: the root check and the directory listing
LoadAllBegin ==
    /\ Idle
    /\ calls < MaxCalls
    /\ calls' = calls + 1
    /\ \E fails \in FactoryInputs :
        IF ~rootExists
        THEN /\ rootExists' = TRUE
             /\ stores' = EarlyReturnMaps(stores, <<>>)
             /\ engines' = EarlyReturnMaps(engines, <<>>)
             /\ call' = [NoCall EXCEPT !.op = "load_all", !.fails = fails,
                                       !.result = "returned_early"]
             /\ pc' = "idle"
             /\ todo' = <<>>
        ELSE /\ call' = [NoCall EXCEPT !.op = "load_all", !.fails = fails,
                                       !.result = "running"]
             /\ pc' = "la_scan"
             /\ todo' \in Listings({n \in Names : disk[n].present})
             /\ UNCHANGED <<rootExists, stores, engines>>
    /\ new_stores' = <<>>
    /\ new_engines' = <<>>
    /\ outcome' = NoOutcome
    /\ UNCHANGED <<disk, writes, storesPub, enginesPub, seen, pathVars>>

\* load_all, lines 40-67: one iteration of the loop
LoadAllVisit ==
    /\ pc = "la_scan"
    /\ todo # <<>>
    /\  LET folder    == Head(todo)
            slug      == Lower(folder)
            built     == Construct(folder, disk[folder], calls)
            factoryOk == folder \notin call.fails
            engine    == Engine(calls, folder)
            what      == IF IsSkippedEntry(folder) THEN "skipped"
                         ELSE IF ~IsValidSlug(slug) THEN "invalid"
                         ELSE IF IsCollision(slug, new_stores, stores) THEN "collision"
                         ELSE IF built.raised THEN "context_failed"
                         ELSE IF ~factoryOk THEN "factory_failed"
                         ELSE "registered"
        IN  /\ todo' = Tail(todo)
            /\ outcome' = [outcome EXCEPT ![folder] = what]
            /\ IF what \in {"skipped", "invalid", "collision"}
               THEN UNCHANGED <<new_stores, new_engines>>
               ELSE /\ new_stores' = RegisterStore(new_stores, slug, built, factoryOk)
                    /\ new_engines' =
                           RegisterEngine(new_engines, slug, engine, built, factoryOk)
    /\ UNCHANGED <<rootExists, disk, writes, stores, engines, calls, pc, call,
                   storesPub, enginesPub, seen, pathVars>>

\* load_all, line 69: self.stores = new_stores
LoadAllSwapStores ==
    /\ pc = "la_scan"
    /\ todo = <<>>
    /\ stores' = new_stores
    /\ storesPub' = calls
    /\ pc' = "la_swap"
    /\ UNCHANGED <<rootExists, disk, writes, engines, calls, call, new_stores,
                   new_engines, todo, outcome, enginesPub, seen, pathVars>>

\* load_all, lines 70-71: self.engines = new_engines, and the return
LoadAllSwapEngines ==
    /\ pc = "la_swap"
    /\ engines' = new_engines
    /\ enginesPub' = calls
    /\ pc' = "idle"
    /\ call' = [call EXCEPT !.result = "returned"]
    /\ new_stores' = <<>>
    /\ new_engines' = <<>>
    /\ outcome' = NoOutcome
    /\ UNCHANGED <<rootExists, disk, writes, stores, calls, todo, storesPub, seen,
                   pathVars>>

\* reload_store(slug, engine_factory): one synchronous call
ReloadStore ==
    /\ Idle
    /\ calls < MaxCalls
    /\ calls' = calls + 1
    /\ \E arg \in SlugArgs :
        LET slug == ReloadKey(arg)
            hit  == Lookup(stores, slug)
            done == [NoCall EXCEPT !.op = "reload_store", !.arg = arg]
        IN  IF ~hit.found
            THEN /\ call' = [done EXCEPT !.result = "False"]
                 /\ UNCHANGED <<stores, engines>>
            ELSE LET ctx == stores[hit.key]
                     r   == Reload(ctx, disk[ctx.dir])
                 IN  /\ stores' = [stores EXCEPT ![hit.key] = r.ctx]
                     /\ IF r.raised
                        THEN /\ call' = [done EXCEPT !.result = "False",
                                                     !.reload = "raised"]
                             /\ UNCHANGED engines
                        ELSE \E factoryOk \in BOOLEAN :
                             IF ~factoryOk
                             THEN /\ call' = [done EXCEPT !.result = "False",
                                                  !.reload = "ok", !.factory = "raised"]
                                  /\ UNCHANGED engines
                             ELSE /\ call' = [done EXCEPT !.result = "True",
                                                  !.reload = "ok", !.factory = "ok"]
                                  /\ engines' =
                                         (slug :> Engine(calls + 1, ctx.dir)) @@ engines
    /\ UNCHANGED <<rootExists, disk, writes, pc, new_stores, new_engines, todo,
                   outcome, storesPub, enginesPub, seen, pathVars>>

\* A request task doing its lookups; it runs only while no synchronous call
\* holds the event loop
ReaderLookup ==
    /\ Idle \/ LoadAllYields(pc)
    /\ seen' = [slugs |-> GetAllSlugs,
                withEngine |-> {a \in SlugArgs : Lookup(engines, a).found},
                storesPub |-> storesPub, enginesPub |-> enginesPub]
    /\ UNCHANGED <<rootExists, disk, writes, stores, engines, calls, pc, call,
                   new_stores, new_engines, todo, outcome, storesPub,
                   enginesPub, pathVars>>

-----------------------------------------------------------------------------
(* The environment: whoever provisions the stores directory *)

DiskStep ==
    /\ Idle
    /\ writes < MaxDiskWrites
    /\ writes' = writes + 1
    /\ UNCHANGED <<stores, engines, calls, pc, call, new_stores, new_engines,
                   todo, outcome, storesPub, enginesPub, seen, pathVars>>

\* A tenant folder appears, complete
DiskCreate ==
    /\ DiskStep
    /\ rootExists
    /\ \E n \in TenantNames :
        /\ ~disk[n].present
        /\ disk' = [disk EXCEPT ![n] = BaseFolder]
    /\ UNCHANGED rootExists

\* A tenant folder is removed
DiskRemove ==
    /\ DiskStep
    /\ \E n \in TenantNames :
        /\ disk[n].present
        /\ disk' = [disk EXCEPT ![n] = NoFolder]
    /\ UNCHANGED rootExists

\* One file of a tenant folder is written, damaged or deleted
DiskSetFile ==
    /\ DiskStep
    /\ \E n \in TenantNames, file \in FileNames :
        /\ disk[n].present
        /\ \E val \in FileMenu(file) :
            /\ disk' = [disk EXCEPT ![n] = WithFile(disk[n], file, val)]
            /\ disk' # disk
    /\ UNCHANGED rootExists

\* The stores root is removed with all it holds
RemoveRoot ==
    /\ DiskStep
    /\ rootExists
    /\ rootExists' = FALSE
    /\ disk' = [n \in Names |-> NoFolder]

-----------------------------------------------------------------------------
(* RetrievalEngine: build and search *)

\* The characters of the category strings the catalogs of the model use
CharsOf(s) ==
    CASE s = "mats"  -> <<"m","a","t","s">>
      [] s = "Mats"  -> <<"M","a","t","s">>
      [] s = "bowls" -> <<"b","o","w","l","s">>
      [] OTHER       -> <<>>

\* Python's `sub in s` for strings
Contains(sub, s) ==
    \E i \in 1..(Len(s) - Len(sub) + 1) : SubSeq(s, i, i + Len(sub) - 1) = sub

\* Records of the catalogs a RetrievalEngine is built over: Rug spells its
\* category with a capital, Toy has no category
Rug == Item("object", "Rug", "Mats")
Toy == Item("object", "Toy", "")

\* products.json as RetrievalEngine._load_data finds it
CatalogMenu ==
    {Products("missing", <<>>), Products("list", <<>>),
     Products("list", <<Mat>>), Products("list", <<Mat, Bowl>>),
     Products("list", <<Rug, Toy>>), Products("list", <<Toy, Bowl, Mat>>),
     Products("list", <<Mat, Bowl, Rug, Toy, Mat, Bowl>>)}

\* RetrievalEngine.threshold (default 0.5) and the similarity scores of the
\* model, in tenths
Threshold == 5
Scores == {3, 5, 7}

\* index.search(q_emb, 5)
TopK == 5

\* The fields of a RetrievalEngine as __init__ sets them before loading
NoRetrieval ==
    [built |-> FALSE, products |-> <<>>, available_categories |-> {},
     index |-> "None"]

\* _load_data, line 40-43: the distinct lowercased categories of the
\* records that have one
AvailableCategories(items) ==
    {Lower(CharsOf(items[i].category)) :
        i \in {j \in 1..Len(items) : items[j].category # ""}}

\* RetrievalEngine.__init__: _load_data reads products.json of the tenant
\* folder (nothing is loaded when the file is missing), _build_index leaves
\* the index None for an empty catalog and otherwise encodes every record
RetrievalInit(file, encodeOk) ==
    IF file.kind = "missing" THEN [NoRetrieval EXCEPT !.built = TRUE]
    ELSE IF file.kind # "list" THEN NoRetrieval
    ELSE IF \E i \in 1..Len(file.items) : file.items[i].kind # "object"
         THEN NoRetrieval
    ELSE IF file.items = <<>>
         THEN [NoRetrieval EXCEPT !.built = TRUE]
    ELSE IF ~encodeOk THEN NoRetrieval
    ELSE [built |-> TRUE, products |-> file.items,
          available_categories |-> AvailableCategories(file.items),
          index |-> "IndexFlatIP"]

\* search, line 87: self.translator.translate(query).  translate is a
\* coroutine function and the call is not awaited: the value is the
\* coroutine object, not the translated text
Translate(query) == [kind |-> "coroutine", text |-> query]

\* _detect_category: query.lower() raises AttributeError on anything but a
\* string; otherwise the first category, in the set's iteration order, that
\* is a substring of the lowercased query.  `found` holds every category the
\* iteration order can put first.
DetectCategory(query, cats) ==
    IF query.kind # "str"
    THEN [raised |-> TRUE, found |-> {}]
    ELSE [raised |-> FALSE,
          found |-> {c \in cats : Contains(c, Lower(query.text))}]

\* The k best of the slots `idxs` by score, best first (ties by position)
RECURSIVE BestFirst(_, _, _)
BestFirst(sims, idxs, k) ==
    IF k = 0 \/ idxs = {} THEN <<>>
    ELSE LET best == CHOOSE i \in idxs :
                         \A j \in idxs : sims[j] < sims[i] \/ (sims[j] = sims[i] /\ i <= j)
         IN  <<best>> \o BestFirst(sims, idxs \ {best}, k - 1)

\* search, lines 100-117: the threshold and the category gate over the
\* retrieved slots, in order
RECURSIVE ValidResults(_, _, _, _)
ValidResults(hits, sims, products, detected_cat) ==
    IF hits = <<>> THEN <<>>
    ELSE LET idx      == Head(hits)
             rest     == ValidResults(Tail(hits), sims, products, detected_cat)
             prod_cat == Lower(CharsOf(products[idx].category))
         IN  IF sims[idx] < Threshold THEN rest
             ELSE IF detected_cat # <<>> /\ prod_cat # detected_cat THEN rest
             ELSE <<[product |-> idx, score |-> sims[idx]]>> \o rest

NoSearch ==
    [query |-> <<>>, sims |-> <<>>, encodeOk |-> TRUE, end |-> "none",
     status |-> "none", products |-> <<>>, keys |-> {},
     detected_category |-> <<>>, available_categories |-> {}]

\* How one search call ends, given the scores the index gives the query
\* (sims), whether model.encode returns (encodeOk) and the category the
\* detection settles on (pick: <<>> for None)
Search(eng, query, sims, encodeOk, pick) ==
    LET begun            == [NoSearch EXCEPT !.query = query, !.sims = sims,
                                             !.encodeOk = encodeOk]
        translated_query == Translate(query)
        detection        == DetectCategory(translated_query, eng.available_categories)
        hits             == BestFirst(sims, 1..Len(eng.products), TopK)
        valid_results    == ValidResults(hits, sims, eng.products, pick)
    IN  IF detection.raised THEN [begun EXCEPT !.end = "AttributeError"]
        ELSE IF eng.index = "None"
             THEN [begun EXCEPT !.end = "returned", !.status = "NO_RESULTS",
                               !.keys = {"status", "products"}]
        ELSE IF ~encodeOk THEN [begun EXCEPT !.end = "EncodeError"]
        ELSE [begun EXCEPT !.end = "returned",
                          !.status = IF valid_results # <<>> THEN "SUCCESS"
                                     ELSE "NO_RESULTS",
                          !.products = valid_results,
                          !.keys = {"status", "products", "detected_category",
                                    "available_categories"},
                          !.detected_category = pick,
                          !.available_categories = eng.available_categories]

\* The categories the detection of one call can settle on
Picks(eng, query) ==
    LET d == DetectCategory(Translate(query), eng.available_categories)
    IN  IF d.raised \/ d.found = {} THEN {<<>>} ELSE d.found

\* Queries of the model
Q_mat   == <<"s","h","o","w"," ","m","e"," ","a"," ","m","a","t">>
Q_mats  == <<"S","h","o","w"," ","M","a","t","s">>
Q_food  == <<"I"," ","w","a","n","t"," ","f","o","o","d"," ","f","o","r"," ","c","a","t","s">>
Q_both  == <<"m","a","t","s"," ","b","o","w","l","s">>
Queries == {Q_mat, Q_mats, Q_food, Q_both, <<>>}

\* The scores the index gives a query, one per record: every assignment for
\* a catalog of up to three records, and for a longer one a few that put
\* more than TopK records at or above the threshold
SimsFor(n) ==
    IF n <= 3 THEN [1..n -> Scores]
    ELSE {[i \in 1..n |-> 7], [i \in 1..n |-> 5],
          [i \in 1..n |-> IF i = 1 THEN 3 ELSE 7],
          [i \in 1..n |-> IF i <= 2 THEN 5 ELSE 7]}

\* RetrievalEngine.search(query)
DoSearch ==
    /\ retrieval.built
    /\ \E query \in Queries, encodeOk \in BOOLEAN,
          sims \in SimsFor(Len(retrieval.products)) :
          \E pick \in Picks(retrieval, query) :
              searchCall' = Search(retrieval, query, sims, encodeOk, pick)
    /\ UNCHANGED <<retrieval, pathVars, regVars, flight, lifeVars, writeVars>>

-----------------------------------------------------------------------------
(* A webhook request in flight: PlatformKernel.webhook_handler and
   StoreEngine.handle_update *)

NoFlight ==
    [pc |-> "none", arg |-> <<>>, status |-> "none",
     engine |-> Engine(0, <<>>),
     ctx |-> NewContext(<<>>, 0),
     atDispatch |-> NewContext(<<>>, 0),
     promptsUsed |-> Prompts("none", "none"),
     replyPrompts |-> Prompts("none", "none"),
     invoked |-> FALSE, raised |-> "none"]

\* The status answered to every request whose engine was found
WebhookStatusAlwaysOk(raised) == "200"

\* webhook_handler, lines 93-100: 200 when the body was read and
\* handle_update returned, 500 when either raised ("body",
\* "handle_update")
WebhookStatus(raised) == IF raised = "none" THEN "200" ELSE "500"

\* webhook_handler, lines 85-94: the engine is looked up, then the handler
\* awaits the request body.  The engine's ctx is the context object
\* registered under the slug (the one the factory was given): the request
\* holds that object, not a copy of its fields.
WebhookDispatch ==
    /\ Idle
    /\ flight.pc = "none"
    /\ \E arg \in SlugArgs :
        LET hit == Lookup(engines, arg)
        IN  IF ~hit.found
            THEN flight' = [NoFlight EXCEPT !.pc = "done", !.arg = arg,
                                            !.status = "404"]
            ELSE flight' = [NoFlight EXCEPT !.pc = "json", !.arg = arg,
                                            !.engine = engines[hit.key],
                                            !.ctx = stores[hit.key],
                                            !.atDispatch = stores[hit.key]]
    /\ UNCHANGED <<pathVars, regVars, lifeVars, findVars, writeVars>>

\* The bodies a request carries: not JSON, no chat id or text, a text the
\* troll buffer of the tenant holds, any other text
Bodies == {"badjson", "no_text", "buffered_troll", "text"}

\* handle_update up to its first suspension: lines 44-54, into
\* DialogManager.analyze_intent, which builds its prompt from
\* self.ctx.prompts (dialog_manager.py:20) and awaits the LLM call
HandleUpdateBegin ==
    /\ Idle
    /\ flight.pc = "json"
    /\ \E body \in Bodies :
        flight' =
            CASE body = "badjson" ->
                    [flight EXCEPT !.pc = "done", !.raised = "body",
                                   !.status = WebhookStatus("body")]
              [] body \in {"no_text", "buffered_troll"} ->
                    [flight EXCEPT !.pc = "done", !.invoked = TRUE,
                                   !.status = WebhookStatus("none")]
              [] body = "text" ->
                    [flight EXCEPT !.pc = "llm", !.invoked = TRUE,
                                   !.promptsUsed = flight.ctx.prompts]
    /\ UNCHANGED <<pathVars, regVars, lifeVars, findVars, writeVars>>

\* handle_update from the LLM's answer on, lines 56-76, and the status
\* webhook_handler answers with, lines 95-100.  The engine's RetrievalEngine
\* was built over the tenant's catalog; the reply to a search that returned
\* is written from self.ctx.prompts.
HandleUpdateEnd ==
    /\ Idle
    /\ flight.pc = "llm"
    /\ \E action \in {"TROLL", "SEARCH"} :
        LET eng == RetrievalInit(flight.atDispatch.products, TRUE)
            res == Search(eng, Q_mat, [i \in 1..Len(eng.products) |-> Threshold],
                          TRUE, <<>>)
        IN  flight' =
                IF action = "TROLL"
                THEN [flight EXCEPT !.pc = "done", !.status = WebhookStatus("none")]
                ELSE IF res.end # "returned"
                THEN [flight EXCEPT !.pc = "done", !.raised = "handle_update",
                                    !.status = WebhookStatus("handle_update")]
                ELSE [flight EXCEPT !.pc = "done", !.status = WebhookStatus("none"),
                                    !.replyPrompts = flight.ctx.prompts]
    /\ UNCHANGED <<pathVars, regVars, lifeVars, findVars, writeVars>>

\* StoreContext.reload assigns the fields of the object it is called on
\* (store_context.py:50-72), and reload_store calls it on the registered
\* object (registry.py:80): a request that holds this object sees its
\* fields change.  An object load_all has replaced is no longer touched.
TrackFlight ==
    flight' =
        IF /\ flight.pc \in {"json", "llm"}
           /\ \E k \in DOMAIN stores' :
                  stores'[k].gen = flight.ctx.gen /\ stores'[k].dir = flight.ctx.dir
        THEN [flight EXCEPT !.ctx =
                 stores'[CHOOSE k \in DOMAIN stores' :
                             /\ stores'[k].gen = flight.ctx.gen
                             /\ stores'[k].dir = flight.ctx.dir]]
        ELSE flight

-----------------------------------------------------------------------------
(* Engine handles and their close(): PlatformKernel._on_cleanup *)

EnginesOf(map) == {map[k] : k \in DOMAIN map}

\* Neither load_all (registry.py:69-70) nor reload_store (registry.py:82)
\* calls close() on a handle it unbinds: the handles that left the maps in
\* this step join `retired`, and `closed` is as it was
TrackEngines ==
    /\ cleanup.pc = "none"
    /\ retired' = retired \cup (EnginesOf(engines) \ EnginesOf(engines'))
    /\ UNCHANGED <<closed, cleanup>>

\* _on_cleanup, line 77: the slugs registered at shutdown
OnCleanupBegin ==
    /\ Idle
    /\ cleanup.pc = "none"
    /\ cleanup' = IF GetAllSlugs = {} THEN [pc |-> "done", todo |-> {}]
                  ELSE [pc |-> "closing", todo |-> GetAllSlugs]
    /\ UNCHANGED <<retired, closed, pathVars, regVars, flight, findVars, writeVars>>

\* _on_cleanup, lines 77-80: one iteration, engine.close() of the engine
\* registered under the slug
OnCleanupClose ==
    /\ cleanup.pc = "closing"
    /\ \E slug \in cleanup.todo :
        LET hit  == Lookup(engines, slug)
            rest == cleanup.todo \ {slug}
        IN  /\ closed' = IF hit.found THEN closed \cup {engines[hit.key]} ELSE closed
            /\ cleanup' = [pc |-> IF rest = {} THEN "done" ELSE "closing",
                           todo |-> rest]
    /\ UNCHANGED <<retired, pathVars, regVars, flight, findVars, writeVars>>

-----------------------------------------------------------------------------
(* StoreContext.get_faiss_index: the lazily loaded index *)

Str_index_faiss == <<"i","n","d","e","x",".","f","a","i","s","s">>

\* store_context.py:106  index_path = "data/index.faiss"
IndexSubPath == Str_data \o Slash \o Str_index_faiss

\* self.path of the context of the folder `dir` under the stores root
ContextRoot(ctx) == <<Str_stores, ctx.dir>>

\* StoreContext.exists: the gate's PermissionError is answered with False
Exists(root, sub_path, dirs, files) ==
    LET r == GetSafePath(root, sub_path)
    IN  r.ok /\ r.path \in dirs \cup files

\* get_faiss_index: [ctx, value], the context after the call and the value
\* returned; `present` is what exists("data/index.faiss") answers
GetFaissIndex(ctx, present) ==
    IF ctx.faiss # "None" THEN [ctx |-> ctx, value |-> ctx.faiss]
    ELSE IF present
         THEN [ctx |-> [ctx EXCEPT !.faiss = "READY"], value |-> "READY"]
    ELSE [ctx |-> ctx, value |-> "None"]

\* A caller asks a registered context for its index
DoGetFaissIndex ==
    /\ Idle
    /\ pathOps < MaxPathOps
    /\ pathOps' = pathOps + 1
    /\ \E k \in DOMAIN stores :
        LET root == ContextRoot(stores[k])
            r    == GetFaissIndex(stores[k],
                                  Exists(root, IndexSubPath, fsDirs, fsFiles))
        IN  /\ stores' = [stores EXCEPT ![k] = r.ctx]
            /\ pathOut' = [op |-> "get_faiss_index", status |-> r.value,
                           path |-> GetSafePath(root, IndexSubPath).path]
    /\ UNCHANGED <<fsDirs, fsFiles, subPath, rootExists, disk, writes, engines,
                   calls, pc, call, new_stores, new_engines, todo, outcome,
                   storesPub, enginesPub, seen>>

\* The environment writes or removes data/index.faiss of a tenant folder
IndexFileStep ==
    /\ Idle
    /\ writes < MaxDiskWrites
    /\ writes' = writes + 1
    /\ \E n \in TenantNames :
        LET path == <<Str_stores, n, Str_data, Str_index_faiss>>
        IN  /\ disk[n].present
            /\ fsFiles' = IF path \in fsFiles THEN fsFiles \ {path}
                          ELSE fsFiles \cup {path}
    /\ UNCHANGED <<fsDirs, subPath, pathOps, pathOut, rootExists, disk, stores,
                   engines, calls, pc, call, new_stores, new_engines, todo,
                   outcome, storesPub, enginesPub, seen>>

-----------------------------------------------------------------------------

(* The RetrievalEngine of a registered engine: built by the factory from
   the tenant folder, inside load_all and inside reload_store *)

\* load_all, lines 56-70: the engine published for Str_shop holds the
\* RetrievalEngine the factory built when the folder was visited; the
\* folder is as it was then, no write being placed inside the scan
TrackRetrieval ==
    retrieval' =
        IF Str_shop \in DOMAIN new_engines
        THEN RetrievalInit(disk[new_stores[Str_shop].dir].products, TRUE)
        ELSE NoRetrieval

\* reload_store, lines 77-80: the lookup and ctx.reload()
ReloadStoreContext ==
    /\ Idle
    /\ calls < MaxCalls
    /\ calls' = calls + 1
    /\ \E arg \in SlugArgs :
        LET slug == ReloadKey(arg)
            hit  == Lookup(stores, slug)
            done == [NoCall EXCEPT !.op = "reload_store", !.arg = arg]
        IN  IF ~hit.found
            THEN /\ call' = [done EXCEPT !.result = "False"]
                 /\ UNCHANGED <<stores, pc>>
            ELSE LET r == Reload(stores[hit.key], disk[stores[hit.key].dir])
                 IN  /\ stores' = [stores EXCEPT ![hit.key] = r.ctx]
                     /\ IF r.raised
                        THEN /\ call' = [done EXCEPT !.result = "False",
                                                     !.reload = "raised"]
                             /\ UNCHANGED pc
                        ELSE /\ call' = [done EXCEPT !.result = "running",
                                                     !.reload = "ok"]
                             /\ pc' = "rs_factory"
    /\ UNCHANGED <<rootExists, disk, writes, engines, new_stores, new_engines,
                   todo, outcome, storesPub, enginesPub, seen, pathVars,
                   flight, lifeVars, findVars, writeVars>>

\* reload_store, lines 82-88: engine_factory(ctx) builds a RetrievalEngine,
\* whose _load_data opens products.json of ctx.path (retrieval.py:33-38),
\* and the engine is bound; a factory that raises leaves the old engine
ReloadStoreEngine ==
    /\ pc = "rs_factory"
    /\ pc' = "idle"
    /\ \E encodeOk \in BOOLEAN :
        LET key   == ReloadKey(call.arg)
            ctx   == stores[key]
            built == RetrievalInit(disk[ctx.dir].products, encodeOk)
        IN  IF ~built.built
            THEN /\ call' = [call EXCEPT !.result = "False", !.factory = "raised"]
                 /\ UNCHANGED <<engines, retrieval>>
            ELSE /\ call' = [call EXCEPT !.result = "True", !.factory = "ok"]
                 /\ engines' = (key :> Engine(calls, ctx.dir)) @@ engines
                 /\ retrieval' = IF key = Str_shop THEN built ELSE retrieval
    /\ UNCHANGED <<rootExists, disk, writes, stores, calls, new_stores,
                   new_engines, todo, outcome, storesPub, enginesPub, seen,
                   pathVars, flight, lifeVars, searchCall, writeVars>>

\* Whoever provisions the folder rewrites products.json; the write does not
\* wait for reload_store to return
CatalogRewritten ==
    /\ pc \in {"idle", "rs_factory"}
    /\ writes < MaxDiskWrites
    /\ writes' = writes + 1
    /\ \E n \in TenantNames, val \in ProductsMenu :
        /\ disk[n].present
        /\ disk' = [disk EXCEPT ![n] = WithFile(disk[n], "products.json", val)]
        /\ disk' # disk
    /\ UNCHANGED <<rootExists, stores, engines, calls, pc, call, new_stores,
                   new_engines, todo, outcome, storesPub, enginesPub, seen,
                   pathVars, flight, lifeVars, findVars, writeVars>>

-----------------------------------------------------------------------------

(* File writes made for a tenant's requests: DialogManager.analyze_intent,
   record_troll_pattern and StoreContext.save_data *)

\* The request tasks of the tenant that run at once
Tasks == {"r1", "r2"}

\* The texts users send
T_spam  == <<"s","p","a","m">>
T_Spam  == <<" ","S","p","a","m"," ">>
T_junk  == <<"j","u","n","k">>
Texts   == {T_spam, T_Spam, T_junk}

\* What save_data is given to save
DataValues == {"d1", "d2"}

\* str.strip()
RECURSIVE Strip(_)
Strip(s) ==
    IF s = <<>> THEN s
    ELSE IF Head(s) = " " THEN Strip(Tail(s))
    ELSE IF s[Len(s)] = " " THEN Strip(SubSeq(s, 1, Len(s) - 1))
    ELSE s

\* dialog_manager.py:39 and 63  user_text.lower().strip()
CleanText(user_text) == Strip(Lower(user_text))

NoTask ==
    [pc |-> "none", job |-> "none", text |-> <<>>, data |-> <<>>,
     value |-> "none", recorded |-> FALSE]

\* A function that is between its read and its write, were there an await
\* between the two
WriteYieldsBeforeWriting(p) == p \in {"record", "saving"}

\* record_troll_pattern (lines 31-48) and save_data (lines 123-133) are
\* plain functions without an await: the task that entered one keeps the
\* event loop until it returns
WriteYields(p) == FALSE

\* No other task is inside a function it has not returned from
LoopFree(t) ==
    \A u \in Tasks \ {t} :
        tasks[u].pc \in {"record", "saving"} => WriteYields(tasks[u].pc)

\* No task at all is: a synchronous call of the registry can run
NoTaskRunning ==
    \A u \in Tasks : tasks[u].pc \in {"record", "saving"} => WriteYields(tasks[u].pc)

\* analyze_intent, lines 62-73: the buffer check over the patterns on file,
\* then the LLM call, awaited in a thread
AnalyzeIntentBegin(t) ==
    /\ Idle
    /\ LoopFree(t)
    /\ tasks[t].pc = "none"
    /\ Str_shop \in DOMAIN engines
    /\ \E user_text \in Texts :
        LET patterns == patchFile
            inBuffer == \E i \in 1..Len(patterns) :
                            Contains(patterns[i], CleanText(user_text))
        IN  tasks' = [tasks EXCEPT ![t] =
                        [NoTask EXCEPT !.job = "troll", !.text = user_text,
                                       !.pc = IF inBuffer THEN "done" ELSE "llm"]]
    /\ UNCHANGED <<patchFile, dataFile, pathVars, regVars, flight, lifeVars, findVars>>

\* analyze_intent, lines 82-87, into record_troll_pattern, lines 33-37: the
\* LLM has answered; on TROLL the pattern file is read
RecordTrollPatternRead(t) ==
    /\ Idle
    /\ LoopFree(t)
    /\ tasks[t].pc = "llm"
    /\ \E action \in {"TROLL", "SEARCH"} :
        tasks' = [tasks EXCEPT ![t] =
                    IF action = "SEARCH" THEN [@ EXCEPT !.pc = "done"]
                    ELSE [@ EXCEPT !.pc = "record", !.data = patchFile]]
    /\ UNCHANGED <<patchFile, dataFile, pathVars, regVars, flight, lifeVars, findVars>>

\* record_troll_pattern, lines 39-46: the pattern is appended to what was
\* read, unless it is there, and the file written
RecordTrollPatternWrite(t) ==
    /\ LoopFree(t)
    /\ tasks[t].pc = "record"
    /\ LET clean_text == CleanText(tasks[t].text)
           known      == \E i \in 1..Len(tasks[t].data) : tasks[t].data[i] = clean_text
       IN  patchFile' = IF known THEN patchFile
                        ELSE Append(tasks[t].data, clean_text)
    /\ tasks' = [tasks EXCEPT ![t] = [@ EXCEPT !.pc = "done", !.recorded = TRUE]]
    /\ UNCHANGED <<dataFile, pathVars, regVars, flight, lifeVars, findVars>>

\* save_data, lines 125-130: the data/ prefix, the gate and the mkdir
SaveDataBegin(t) ==
    /\ Idle
    /\ LoopFree(t)
    /\ tasks[t].pc = "none"
    /\ Str_shop \in DOMAIN stores
    /\ \E value \in DataValues :
        tasks' = [tasks EXCEPT ![t] =
                    [NoTask EXCEPT !.job = "save", !.value = value, !.pc = "saving"]]
    /\ UNCHANGED <<patchFile, dataFile, pathVars, regVars, flight, lifeVars, findVars>>

\* save_data, lines 132-133: the file is opened for writing and dumped to
SaveDataEnd(t) ==
    /\ LoopFree(t)
    /\ tasks[t].pc = "saving"
    /\ dataFile' = tasks[t].value
    /\ tasks' = [tasks EXCEPT ![t] = [@ EXCEPT !.pc = "done"]]
    /\ UNCHANGED <<patchFile, pathVars, regVars, flight, lifeVars, findVars>>

-----------------------------------------------------------------------------

(* Specifications *)

\* No file operation made yet, on a tenant folder without data/
PathIdle ==
    /\ fsDirs = {<<>>, <<Str_stores>>, TenantRoot, SiblingRoot}
    /\ fsFiles = {Append(TenantRoot, Str_config), Append(SiblingRoot, Str_config)}
    /\ subPath = Str_x
    /\ pathOps = 0
    /\ pathOut = NoPathOp

\* StoreRegistry.__init__: both maps empty, no call made
RegistryFresh ==
    /\ rootExists = TRUE
    /\ writes = 0
    /\ stores = <<>>
    /\ engines = <<>>
    /\ calls = 0
    /\ pc = "idle"
    /\ call = NoCall
    /\ new_stores = <<>>
    /\ new_engines = <<>>
    /\ todo = <<>>
    /\ outcome = NoOutcome
    /\ storesPub = 0
    /\ enginesPub = 0
    /\ seen = [slugs |-> {}, withEngine |-> {}, storesPub |-> 0, enginesPub |-> 0]

\* No request in flight
FlightNone == flight = NoFlight

\* No engine unbound or closed yet, the kernel not shutting down
LifeFresh ==
    /\ retired = {}
    /\ closed = {}
    /\ cleanup = [pc |-> "none", todo |-> {}]

\* No RetrievalEngine under study
SearchNone ==
    /\ retrieval = NoRetrieval
    /\ searchCall = NoSearch

\* No request task writing a file of the tenant yet
WriteNone ==
    /\ patchFile = <<>>
    /\ dataFile = "none"
    /\ tasks = [t \in Tasks |-> NoTask]

\* The step involves no request, no engine lifecycle, no search and no
\* file write of a request
Apart == UNCHANGED <<flight, lifeVars, findVars, writeVars>>

\* The registry of a freshly constructed kernel, over a stores root whose
\* tenant folders are each present (complete) or not
Init ==
    /\ PathIdle
    /\ RegistryFresh
    /\ disk \in [Names -> {BaseFolder, NoFolder}]
    /\ \A n \in FixedNames : disk[n] = BaseFolder
    /\ FlightNone
    /\ LifeFresh
    /\ WriteNone
    /\ SearchNone

Next ==
    \/ LoadAllBegin /\ Apart
    \/ LoadAllVisit /\ Apart
    \/ LoadAllSwapStores /\ Apart
    \/ LoadAllSwapEngines /\ Apart
    \/ ReloadStore /\ Apart
    \/ DiskCreate /\ Apart
    \/ DiskRemove /\ Apart
    \/ DiskSetFile /\ Apart
    \/ RemoveRoot /\ Apart

Spec == Init /\ [][Next]_vars

\* The registry with request tasks reading it, over a stores root whose
\* folders come and go
NextRead ==
    \/ LoadAllBegin /\ Apart
    \/ LoadAllVisit /\ Apart
    \/ LoadAllSwapStores /\ Apart
    \/ LoadAllSwapEngines /\ Apart
    \/ ReloadStore /\ Apart
    \/ ReaderLookup /\ Apart
    \/ DiskCreate /\ Apart
    \/ DiskRemove /\ Apart
    \/ RemoveRoot /\ Apart

SpecRead == Init /\ [][NextRead]_vars

\* One StoreContext rooted at TenantRoot, with or without its data/
\* directory, and the file operations made through it
InitPath ==
    /\ RegistryFresh
    /\ disk = [n \in Names |-> NoFolder]
    /\ fsDirs \in {{<<>>, <<Str_stores>>, TenantRoot, SiblingRoot},
                   {<<>>, <<Str_stores>>, TenantRoot, SiblingRoot, DataDir}}
    /\ fsFiles = {Append(TenantRoot, Str_config), Append(SiblingRoot, Str_config)}
    /\ subPath \in SubPaths
    /\ pathOps = 0
    /\ pathOut = NoPathOp
    /\ FlightNone
    /\ LifeFresh
    /\ WriteNone
    /\ SearchNone

NextPath ==
    \/ DoGetSafePath /\ Apart
    \/ DoExists /\ Apart
    \/ DoReadJsonFile /\ Apart
    \/ DoSaveData /\ Apart

SpecPath == InitPath /\ [][NextPath]_vars

\* One webhook request served while the registry is reloaded and the
\* tenant's files are edited
NextFlight ==
    \/ LoadAllBegin /\ Apart
    \/ LoadAllVisit /\ Apart
    \/ LoadAllSwapStores /\ Apart
    \/ LoadAllSwapEngines /\ Apart
    \/ ReloadStore /\ TrackFlight /\ UNCHANGED <<lifeVars, findVars, writeVars>>
    \/ DiskSetFile /\ Apart
    \/ WebhookDispatch
    \/ HandleUpdateBegin
    \/ HandleUpdateEnd

SpecFlight == Init /\ [][NextFlight]_vars

\* Webhook requests against a registry that is loaded and reloaded
NextWebhook ==
    \/ LoadAllBegin /\ Apart
    \/ LoadAllVisit /\ Apart
    \/ LoadAllSwapStores /\ Apart
    \/ LoadAllSwapEngines /\ Apart
    \/ ReloadStore /\ TrackFlight /\ UNCHANGED <<lifeVars, findVars, writeVars>>
    \/ WebhookDispatch
    \/ HandleUpdateBegin
    \/ HandleUpdateEnd

SpecWebhook == Init /\ [][NextWebhook]_vars

\* The engine handles of a kernel from startup to the end of its cleanup
NextLife ==
    \/ LoadAllBegin /\ TrackEngines /\ UNCHANGED <<flight, findVars, writeVars>>
    \/ LoadAllVisit /\ TrackEngines /\ UNCHANGED <<flight, findVars, writeVars>>
    \/ LoadAllSwapStores /\ TrackEngines /\ UNCHANGED <<flight, findVars, writeVars>>
    \/ LoadAllSwapEngines /\ TrackEngines /\ UNCHANGED <<flight, findVars, writeVars>>
    \/ ReloadStore /\ TrackEngines /\ UNCHANGED <<flight, findVars, writeVars>>
    \/ DiskRemove /\ Apart
    \/ OnCleanupBegin
    \/ OnCleanupClose

SpecLife == Init /\ [][NextLife]_vars

\* One RetrievalEngine, built over one of the catalogs, and the searches
\* made on it
InitSearch ==
    /\ PathIdle
    /\ RegistryFresh
    /\ disk = [n \in Names |-> NoFolder]
    /\ FlightNone
    /\ LifeFresh
    /\ WriteNone
    /\ searchCall = NoSearch
    /\ \E file \in CatalogMenu : retrieval = RetrievalInit(file, TRUE)

NextSearch == DoSearch

SpecSearch == InitSearch /\ [][NextSearch]_vars

\* A stores root with one tenant folder of any content and a second one
\* that is complete or absent, scanned by load_all
InitBuild ==
    /\ PathIdle
    /\ RegistryFresh
    /\ \E c \in ConfigShelf, p \in ProductsShelf, q \in PromptsShelf,
          other \in {BaseFolder, NoFolder} :
          disk = [n \in Names |->
                    IF n = Str_shop THEN Folder(TRUE, c, p, q)
                    ELSE IF n = Str_pets THEN other
                    ELSE IF n \in FixedNames THEN BaseFolder
                    ELSE NoFolder]
    /\ FlightNone
    /\ LifeFresh
    /\ WriteNone
    /\ SearchNone

NextBuild ==
    \/ LoadAllBegin /\ Apart
    \/ LoadAllVisit /\ Apart
    \/ LoadAllSwapStores /\ Apart
    \/ LoadAllSwapEngines /\ Apart

SpecBuild == InitBuild /\ [][NextBuild]_vars

\* One tenant folder with its data/ directory, with or without an index
\* file, loaded, reloaded and asked for its index
InitIndex ==
    /\ RegistryFresh
    /\ disk = [n \in Names |-> IF n \in FixedNames \cup {Str_shop}
                               THEN BaseFolder ELSE NoFolder]
    /\ fsDirs = {<<>>, <<Str_stores>>, TenantRoot, DataDir}
    /\ fsFiles \in {{Append(TenantRoot, Str_config)},
                    {Append(TenantRoot, Str_config),
                     Append(DataDir, Str_index_faiss)}}
    /\ subPath = Str_x
    /\ pathOps = 0
    /\ pathOut = NoPathOp
    /\ FlightNone
    /\ LifeFresh
    /\ WriteNone
    /\ SearchNone

NextIndex ==
    \/ LoadAllBegin /\ Apart
    \/ LoadAllVisit /\ Apart
    \/ LoadAllSwapStores /\ Apart
    \/ LoadAllSwapEngines /\ Apart
    \/ ReloadStore /\ Apart
    \/ DiskSetFile /\ Apart
    \/ IndexFileStep /\ Apart
    \/ DoGetFaissIndex /\ Apart

SpecIndex == InitIndex /\ [][NextIndex]_vars

\* One tenant folder, loaded and reloaded while its catalog is rewritten,
\* and the RetrievalEngine of the engine registered for it
InitDerive ==
    /\ PathIdle
    /\ RegistryFresh
    /\ disk = [n \in Names |-> IF n \in FixedNames \cup {Str_shop}
                               THEN BaseFolder ELSE NoFolder]
    /\ FlightNone
    /\ LifeFresh
    /\ WriteNone
    /\ SearchNone

NextDerive ==
    \/ LoadAllBegin /\ Apart
    \/ LoadAllVisit /\ Apart
    \/ LoadAllSwapStores /\ Apart
    \/ LoadAllSwapEngines /\ TrackRetrieval /\ UNCHANGED <<flight, lifeVars, searchCall, writeVars>>
    \/ ReloadStoreContext
    \/ ReloadStoreEngine
    \/ CatalogRewritten

SpecDerive == InitDerive /\ [][NextDerive]_vars

\* One tenant, loaded and reloaded, and two request tasks that record troll
\* patterns or save data for it
NextWrite ==
    \/ LoadAllBegin /\ NoTaskRunning /\ Apart
    \/ LoadAllVisit /\ Apart
    \/ LoadAllSwapStores /\ Apart
    \/ LoadAllSwapEngines /\ Apart
    \/ ReloadStore /\ NoTaskRunning /\ Apart
    \/ \E t \in Tasks : AnalyzeIntentBegin(t)
    \/ \E t \in Tasks : RecordTrollPatternRead(t)
    \/ \E t \in Tasks : RecordTrollPatternWrite(t)
    \/ \E t \in Tasks : SaveDataBegin(t)
    \/ \E t \in Tasks : SaveDataEnd(t)

SpecWrite == InitDerive /\ [][NextWrite]_vars

-----------------------------------------------------------------------------
(* Claims about StoreContext *)

\* C1: for every relative sub-path, _get_safe_path returns the tenant root
\* or a descendant of it, or fails with PermissionError; it never returns a
\* path outside the root, a sibling folder whose name begins with the
\* tenant's name included.
C1_SafePathStaysInRoot ==
    (/\ pathOut.op = "get_safe_path"
     /\ ~IsAbsolute(subPath)
     /\ pathOut.status = "returned")
        => IsWithin(pathOut.path, TenantRoot)

\* C2: for every filename, save_data writes a file inside the tenant's
\* data/ directory or fails without writing; it never writes elsewhere
\* under the tenant root or outside it.
C2_SaveDataStaysInData ==
    pathOut.op = "save_data" =>
        IF pathOut.status = "written"
        THEN IsWithin(pathOut.path, DataDir) /\ pathOut.path # DataDir
        ELSE pathOps = 1 =>
                 fsFiles = {Append(TenantRoot, Str_config), Append(SiblingRoot, Str_config)}

\* C3: reload() is all-or-nothing: after a call either it succeeded and
\* config, catalog and prompts are those of the files on disk, or it raised
\* and config, catalog, prompts and the lazy index are what they were.
C3_ReloadAllOrNothing ==
    [][(calls' = calls + 1 /\ call'.op = "reload_store" /\ call'.reload # "none") =>
          LET key == Lower(call'.arg)
              dir == stores[key].dir
          IN  IF call'.reload = "ok"
              THEN /\ stores'[key].config = disk[dir].config
                   /\ stores'[key].products = disk[dir].products
                   /\ stores'[key].prompts = disk[dir].prompts
              ELSE stores'[key] = stores[key]]_vars

-----------------------------------------------------------------------------
(* Claims about StoreRegistry *)

\* The step is a reload_store call
IsReloadStep == calls' = calls + 1 /\ call'.op = "reload_store"

\* C4: when reload_store returns failure for a registered slug (the reload
\* or the factory raised), the context state and the engine under that
\* slug are what they were, and the slug stays registered.
C4_FailedReloadKeepsTenant ==
    [][(IsReloadStep /\ call'.result = "False" /\ Lookup(stores, call'.arg).found) =>
          LET key == Lower(call'.arg)
          IN  /\ key \in DOMAIN stores' /\ key \in DOMAIN engines'
              /\ stores'[key] = stores[key]
              /\ engines'[key] = engines[key]]_vars

\* C5: reload_store, whether it succeeds or fails, leaves the context and
\* the engine of every other slug unchanged and adds or removes no key of
\* either map; the context slot of the given slug keeps its object and only
\* its engine slot may be rebound.
C5_ReloadFrame ==
    [][IsReloadStep =>
          LET key == Lower(call'.arg)
          IN  /\ DOMAIN stores' = DOMAIN stores
              /\ DOMAIN engines' = DOMAIN engines
              /\ \A s \in DOMAIN stores \ {key} : stores'[s] = stores[s]
              /\ \A s \in DOMAIN engines \ {key} : engines'[s] = engines[s]
              /\ key \in DOMAIN stores =>
                    /\ stores'[key].gen = stores[key].gen
                    /\ stores'[key].dir = stores[key].dir]_vars

C5_Witness ==
    /\ call.op = "reload_store"
    /\ call.result = "True"
    /\ Cardinality(DOMAIN stores) >= 2

\* C6: whenever no registry call is running, after any sequence of load_all
\* and reload_store calls (failed constructions and factory failures
\* included), the context map and the engine map have the same keys.
C6_SameKeys == Idle => DOMAIN stores = DOMAIN engines

C6_Witness ==
    /\ Idle
    /\ call.op = "reload_store"
    /\ call.factory = "raised"
    /\ DOMAIN stores # {}

\* A tenant folder as the claims describe a valid one: all three files
\* there and parsed, the slug well formed, the config complete, the catalog
\* a list of mappings
WellFormed(n) ==
    /\ disk[n].present
    /\ MatchesSlugRegex(Lower(n))
    /\ disk[n].config.kind = "object"
    /\ disk[n].config.version # "text"
    /\ RequiredKeySet \subseteq disk[n].config.keys
    /\ disk[n].products.kind = "list"
    /\ \A i \in 1..Len(disk[n].products.items) : disk[n].products.items[i].kind = "object"
    /\ disk[n].prompts.kind = "object"

\* The folders a scan with the running call's factory can register
Loadable == {n \in Names : WellFormed(n) /\ n \notin call.fails}

LoadAllReturned == Idle /\ call.op = "load_all" /\ call.result = "returned"

\* The step is the return of a load_all call (after the swap, or early)
IsLoadAllReturn ==
    /\ pc' = "idle"
    /\ call'.op = "load_all"
    /\ pc = "la_swap" \/ calls' = calls + 1

ExactlyValidRegistered ==
    /\ DOMAIN stores = {Lower(n) : n \in Loadable}
    /\ DOMAIN engines = DOMAIN stores
    /\ \A s \in DOMAIN stores :
          /\ stores[s].dir \in Loadable
          /\ Lower(stores[s].dir) = s
          /\ stores[s].config = disk[stores[s].dir].config
          /\ stores[s].products = disk[stores[s].dir].products
          /\ engines[s].dir = stores[s].dir

\* C7: a load_all scan over valid and malformed tenant folders (invalid
\* slug, missing file, bad config, bad catalog, factory failure) returns
\* with exactly the valid ones registered, each with the contents of its
\* folder, and every malformed one absent.
C7_ScanRegistersExactlyValid ==
    [][(IsLoadAllReturn /\ call'.result = "returned") => ExactlyValidRegistered']_vars

C7_Witness ==
    /\ LoadAllReturned
    /\ Cardinality(DOMAIN stores) >= 2
    /\ \E n \in TenantNames : disk[n].present /\ ~WellFormed(n)
    /\ call.fails # {}

Scanning == pc \in {"la_scan", "la_swap"}

\* C8: the registry never holds two contexts for one slug.  Folders whose
\* names differ only by case have the same slug; a folder is rejected as a
\* collision only if a context for its slug was already built in this scan,
\* that context is left as it was built (not merged or replaced), and at
\* most one folder per slug is registered, with a context built in this
\* scan.
C8_CollisionRejected ==
    /\ Scanning =>
          \A n \in Names :
              /\ outcome[n] = "collision" =>
                    \E m \in Names \ {n} :
                        /\ Lower(m) = Lower(n)
                        /\ outcome[m] = "registered"
              /\ outcome[n] = "registered" =>
                    /\ Lower(n) \in DOMAIN new_stores
                    /\ new_stores[Lower(n)] = Construct(n, disk[n], calls).ctx
                    /\ \A m \in Names \ {n} :
                          Lower(m) = Lower(n) => outcome[m] # "registered"
    /\ Idle => \A s, t \in DOMAIN stores : stores[s].slug = stores[t].slug => s = t

C8_Witness ==
    /\ pc = "la_swap"
    /\ outcome[Str_Shop] = "collision"
    /\ outcome[Str_shop] = "registered"

OnlyThisScanRegistered ==
    /\ \A s \in DOMAIN stores : stores[s].gen = calls /\ disk[stores[s].dir].present
    /\ \A s \in DOMAIN engines : engines[s].gen = calls

\* C9: after every load_all call returns, the live maps hold exactly the
\* tenants built in that scan; a tenant registered before and not found by
\* the scan is dropped, also when the stores root no longer exists.
C9_ScanDropsOldTenants == [][IsLoadAllReturn => OnlyThisScanRegistered']_vars

\* C10: a reader doing its lookups while load_all calls come and go sees
\* the two maps of one publication: both as they were before a swap or both
\* as they are after it, never the new context map with the old engine map.
C10_ReaderSeesOnePublication ==
    /\ seen.storesPub = seen.enginesPub
    /\ seen.withEngine = {a \in SlugArgs : Lower(a) \in seen.slugs}

C10_Witness ==
    /\ seen.storesPub = 1
    /\ seen.slugs # {}
    /\ storesPub = 2
    /\ enginesPub = 2
    /\ DOMAIN stores # seen.slugs

-----------------------------------------------------------------------------
(* Claims about requests in flight and engine handles *)

\* C11: a request in flight on a tenant while reload_store runs for that
\* tenant completes on one state of the tenant: holding the engine it was
\* dispatched to, whatever it reads of the context's prompts is what the
\* context held when it was dispatched, never the reloaded prompts.
C11_InFlightSeesOneState ==
    /\ flight.promptsUsed.kind # "none" =>
          flight.promptsUsed = flight.atDispatch.prompts
    /\ flight.replyPrompts.kind # "none" =>
          flight.replyPrompts = flight.atDispatch.prompts

\* C12: once the kernel's cleanup has run, every engine that was ever
\* registered has had close() called: those a reload_store or a later
\* load_all unbound as well as those still registered.
C12_EveryEngineClosed ==
    cleanup.pc = "done" => (retired \cup EnginesOf(engines)) \subseteq closed

-----------------------------------------------------------------------------
(* Claims about RetrievalEngine.search *)

\* The known categories the lowercased text of the last query contains
KnownInQuery ==
    {c \in retrieval.available_categories : Contains(c, Lower(searchCall.query))}

\* A search call has ended, and not by a failure of the embedding model
SearchEnded == searchCall.end \notin {"none", "EncodeError"}

\* The lowercased category of the record a result holds
ResultCategory(r) == Lower(CharsOf(retrieval.products[r.product].category))

\* C13: for every catalog and every query whose lowercased text contains a
\* known category, search returns such a category as detectedCategory and
\* no result whose lowercased category differs from it (so none without a
\* category), whatever the similarity scores.
C13_CategoryGate ==
    (SearchEnded /\ KnownInQuery # {}) =>
        /\ searchCall.end = "returned"
        /\ searchCall.detected_category \in KnownInQuery
        /\ \A i \in 1..Len(searchCall.products) :
              ResultCategory(searchCall.products[i]) = searchCall.detected_category

\* C14: with "mats" the only known category, the query "I want food for
\* cats" yields NO_RESULTS, no record, an empty detectedCategory and
\* availableCategories = {"mats"}, whatever the similarity scores.
C14_AbsentCategoryScenario ==
    (/\ SearchEnded
     /\ searchCall.query = Q_food
     /\ retrieval.available_categories = {CharsOf("mats")}) =>
        /\ searchCall.end = "returned"
        /\ searchCall.status = "NO_RESULTS"
        /\ searchCall.products = <<>>
        /\ searchCall.detected_category = <<>>
        /\ searchCall.available_categories = {CharsOf("mats")}

\* C15: over the catalog of the one record Licking mat (category "mats"),
\* the query "show me a mat", with the record similar enough to pass the
\* threshold, yields SUCCESS with exactly that record and detectedCategory
\* "mats".
C15_MatScenario ==
    (/\ SearchEnded
     /\ searchCall.query = Q_mat
     /\ retrieval.products = <<Mat>>
     /\ searchCall.sims[1] >= Threshold) =>
        /\ searchCall.end = "returned"
        /\ searchCall.status = "SUCCESS"
        /\ searchCall.products = <<[product |-> 1, score |-> searchCall.sims[1]]>>
        /\ searchCall.detected_category = CharsOf("mats")

\* C16: for every query, search over a catalog of zero records returns
\* NO_RESULTS with an empty availableCategories and a detectedCategory
\* field; it never raises.
C16_EmptyCatalog ==
    (searchCall.end # "none" /\ retrieval.products = <<>>) =>
        /\ searchCall.end = "returned"
        /\ searchCall.status = "NO_RESULTS"
        /\ {"detected_category", "available_categories"} \subseteq searchCall.keys
        /\ searchCall.available_categories = {}

-----------------------------------------------------------------------------
(* Further claims about StoreRegistry and StoreContext *)

\* C19: reload_store with a slug that is not registered returns failure
\* without side effects: the factory is not called, no context is reloaded
\* and both maps are as they were.
C19_UnknownSlugNoEffect ==
    [][(IsReloadStep /\ Lower(call'.arg) \notin DOMAIN stores) =>
          /\ call'.result = "False"
          /\ call'.reload = "none"
          /\ call'.factory = "none"
          /\ stores' = stores
          /\ engines' = engines]_vars

C19_Witness ==
    /\ call.op = "reload_store"
    /\ call.arg = Str_nope
    /\ call.result = "False"
    /\ DOMAIN stores # {}
    /\ DOMAIN engines = DOMAIN stores

\* C20: every file operation of a StoreContext (read, exists, save_data)
\* whose path resolves outside the tenant root ends in PermissionError; none
\* answers with an ordinary value or acts on the path.
C20_EscapeAlwaysRaises ==
    (/\ pathOut.op \in {"exists", "read_json_file", "save_data"}
     /\ ~IsWithin(pathOut.path, TenantRoot)) =>
        pathOut.status = "PermissionError"

-----------------------------------------------------------------------------
(* Claims about construction, lookup and the index accessor *)

\* The conditions on a tenant folder: the three files exist, the lowercased
\* directory name matches SLUG_REGEX, config.json holds the four required
\* keys, products.json holds a list of mappings
FilesAndKeysInPlace(n) ==
    /\ disk[n].config.kind # "missing"
    /\ disk[n].products.kind # "missing"
    /\ disk[n].prompts.kind # "missing"
    /\ MatchesSlugRegex(Lower(n))
    /\ RequiredKeySet \subseteq disk[n].config.keys
    /\ disk[n].products.kind = "list"
    /\ \A i \in 1..Len(disk[n].products.items) : disk[n].products.items[i].kind = "object"

\* A folder whose context was not constructed is in neither the map being
\* built nor the published one
NotVisible(n) ==
    /\ \A k \in DOMAIN new_stores : new_stores[k].dir # n
    /\ \A k \in DOMAIN stores : stores[k].dir # n

\* C21: construction of a StoreContext succeeds exactly when the three
\* files exist and each holds JSON, the lowercased directory name matches
\* the slug pattern, config.json holds the four required keys and a
\* config_version that is absent or a number, and products.json is a list of
\* mappings; in every other case construction raises and the registry never
\* shows a context for the folder.
C21_ConstructionConditions ==
    \A n \in Names :
        disk[n].present =>
            LET built == Construct(n, disk[n], 1)
            IN  /\ ~built.raised <=>
                      /\ FilesAndKeysInPlace(n)
                      /\ disk[n].prompts.kind # "badjson"
                      /\ disk[n].config.version # "text"
                /\ built.raised => NotVisible(n)

C21_Witness ==
    /\ LoadAllReturned
    /\ disk[Str_shop].prompts.kind = "badjson"
    /\ FilesAndKeysInPlace(Str_shop)
    /\ disk[Str_shop].config.version # "text"
    /\ call.fails = {}
    /\ DOMAIN stores = {Str_pets}

\* C21 as stated: the conditions named are the existence of the files, the
\* name, the keys and the shape of the catalog, and nothing else
C21_AsStated ==
    \A n \in Names :
        disk[n].present =>
            LET built == Construct(n, disk[n], 1)
            IN  /\ ~built.raised <=> FilesAndKeysInPlace(n)
                /\ built.raised => NotVisible(n)

\* What a lookup of `slug` in `map` is to answer: the entry under the
\* lowercased slug when there is one, None otherwise
AnswersLowercased(map, slug) ==
    LET r == Lookup(map, slug)
    IN  /\ r.found <=> Lower(slug) \in DOMAIN map
        /\ r.found => r.key \in DOMAIN map /\ r.key = Lower(slug)

\* C22: get_context and get_engine answer every string with the entry
\* registered under its lowercased form, or with None when there is none,
\* and a lookup leaves both maps of the registry as they were.
C22_LookupTotalCaseInsensitive ==
    [][(seen' # seen) =>
          /\ stores' = stores
          /\ engines' = engines
          /\ \A a \in SlugArgs :
                /\ AnswersLowercased(stores, a)
                /\ AnswersLowercased(engines, a)
                /\ a \in seen'.withEngine <=> Lower(a) \in DOMAIN engines]_vars

C22_Witness ==
    /\ DOMAIN engines = {Str_shop}
    /\ engines[Str_shop].dir = Str_Shop
    /\ seen.withEngine = {Str_shop, Str_Shop}
    /\ seen.slugs = {Str_shop}

\* The step is a call of get_faiss_index on the context registered under k
IsIndexAccess(k) ==
    /\ pathOps' = pathOps + 1
    /\ pathOut'.op = "get_faiss_index"
    /\ k \in DOMAIN stores
    /\ pathOut'.path = <<Str_stores, stores[k].dir, Str_data, Str_index_faiss>>

IndexOnDisk(k) ==
    <<Str_stores, stores[k].dir, Str_data, Str_index_faiss>> \in fsDirs \cup fsFiles

\* C23: the index accessor returns the cached resource when one is cached;
\* with nothing cached it loads and caches the resource when
\* data/index.faiss exists under the tenant root, and returns None, caching
\* nothing, when it does not; a reload() that succeeds leaves nothing
\* cached, and one that raises leaves the cache as it was.
C23_IndexCacheProtocol ==
    [][/\ \A k \in DOMAIN stores :
            IsIndexAccess(k) =>
                /\ stores[k].faiss # "None" =>
                      pathOut'.status = stores[k].faiss /\ stores' = stores
                /\ (stores[k].faiss = "None" /\ IndexOnDisk(k)) =>
                      /\ pathOut'.status = "READY"
                      /\ stores' = [stores EXCEPT ![k].faiss = "READY"]
                /\ (stores[k].faiss = "None" /\ ~IndexOnDisk(k)) =>
                      pathOut'.status = "None" /\ stores' = stores
       /\ (IsReloadStep /\ call'.reload = "ok") =>
              stores'[Lower(call'.arg)].faiss = "None"
       /\ (IsReloadStep /\ call'.reload = "raised") =>
              stores'[Lower(call'.arg)].faiss = stores[Lower(call'.arg)].faiss]_vars

\* The index was loaded, the tenant reloaded, the file removed: the next
\* access finds nothing cached and returns None
C23_Witness ==
    /\ pathOut.op = "get_faiss_index"
    /\ pathOut.status = "None"
    /\ pathOps = 2
    /\ call.op = "reload_store" /\ call.reload = "ok"
    /\ Append(DataDir, Str_index_faiss) \notin fsFiles
    /\ writes = 1
    /\ stores[Str_shop].faiss = "None"

\* The context holds what the files of its folder hold
InStepWithDisk(ctx) ==
    /\ ctx.config = disk[ctx.dir].config
    /\ ctx.products = disk[ctx.dir].products
    /\ ctx.prompts = disk[ctx.dir].prompts

\* C26: reload() of a registered context is idempotent while the files do
\* not change: a second reload leaves the context (and the outcome, return
\* or raise) as the first did, and a reload of a context that holds what
\* the files hold leaves its config, catalog and prompts as they were.
C26_ReloadIdempotent ==
    \A k \in DOMAIN stores :
        LET folder == disk[stores[k].dir]
            once   == Reload(stores[k], folder)
            twice  == Reload(once.ctx, folder)
        IN  /\ twice = once
            /\ InStepWithDisk(stores[k]) =>
                  /\ once.ctx.config = stores[k].config
                  /\ once.ctx.products = stores[k].products
                  /\ once.ctx.prompts = stores[k].prompts

\* A reload that took up an edited prompts.json has returned: the next one
\* is the second in a row over the same files
C26_Witness ==
    /\ Idle
    /\ call.op = "reload_store" /\ call.reload = "ok"
    /\ writes = 1
    /\ Str_shop \in DOMAIN stores
    /\ stores[Str_shop].prompts = Prompts("object", "p2")
    /\ InStepWithDisk(stores[Str_shop])

-----------------------------------------------------------------------------
(* Claims about the engine's catalog, the top-5 search, file writes and
   webhook routing *)

\* C24: after load_all, or after a reload_store that returned True, the
\* record list of the tenant's RetrievalEngine is the catalog its context
\* holds, and an index exists exactly when that catalog is not empty, even
\* when products.json is rewritten between the context's load and the
\* engine's build.
C24_EngineFollowsContext ==
    (/\ Idle
     /\ Str_shop \in DOMAIN engines
     /\ \/ call.op = "load_all" /\ call.result = "returned"
        \/ call.op = "reload_store" /\ call.result = "True") =>
        /\ retrieval.products = stores[Str_shop].products.items
        /\ retrieval.index = "IndexFlatIP" <=> Len(stores[Str_shop].products.items) > 0

\* The slots of the catalog nearest to the query, at most TopK of them,
\* nearest first
NearestSlots == BestFirst(searchCall.sims, 1..Len(retrieval.products), TopK)

\* The slot passes the threshold (a score equal to it included) and the
\* category gate of the call
PassesGates(i) ==
    /\ searchCall.sims[i] >= Threshold
    /\ \/ searchCall.detected_category = <<>>
       \/ Lower(CharsOf(retrieval.products[i].category)) = searchCall.detected_category

\* C25: a search over a non-empty catalog returns exactly those of the at
\* most five nearest records whose score is at least the threshold and
\* which pass the category gate, nearest first: never more than five, never
\* one below the threshold.
C25_TopFiveAboveThreshold ==
    (SearchEnded /\ retrieval.index # "None") =>
        LET kept == SelectSeq(NearestSlots, PassesGates)
        IN  /\ searchCall.end = "returned"
            /\ searchCall.products =
                  [n \in 1..Len(kept) |->
                      [product |-> kept[n], score |-> searchCall.sims[kept[n]]]]
            /\ Len(searchCall.products) <= TopK
            /\ \A n \in 1..Len(searchCall.products) :
                  searchCall.products[n].score >= Threshold

\* C27: no reload of the tenant runs while one of its requests is between
\* the read and the write of record_troll_pattern or inside save_data, and
\* every troll pattern a request has recorded is in the pattern file, also
\* when two requests record at once.
C27_WritesNotInterleaved ==
    [][/\ IsReloadStep => \A t \in Tasks : tasks[t].pc \notin {"record", "saving"}
       /\ \A t \in Tasks :
             tasks'[t].recorded =>
                 \E i \in 1..Len(patchFile') : patchFile'[i] = CleanText(tasks'[t].text)]_vars

\* Two requests were both at the LLM, each recorded a pattern of its own,
\* and the tenant was reloaded
C27_Witness ==
    /\ \A t \in Tasks : tasks[t].pc = "done" /\ tasks[t].recorded
    /\ CleanText(tasks["r1"].text) # CleanText(tasks["r2"].text)
    /\ Len(patchFile) = 2
    /\ call.op = "reload_store" /\ call.result = "True"

\* The step looks up the engine of a request
IsDispatch == flight.pc = "none" /\ flight'.pc # "none"

\* The step is the answer to a request whose engine was found
IsAnswer == flight.pc \in {"json", "llm"} /\ flight'.pc = "done"

\* What every request does whatever its status: the engine is the one
\* registered under the lowercased slug when the request is dispatched, a
\* slug without an engine is answered 404 and invokes none, and the request
\* keeps its engine to the end
RoutedToOwnEngine ==
    /\ IsDispatch =>
          LET key == Lower(flight'.arg)
          IN  IF key \in DOMAIN engines
              THEN /\ flight'.pc = "json"
                   /\ flight'.engine = engines[key]
                   /\ Lower(flight'.engine.dir) = key
              ELSE /\ flight'.pc = "done"
                   /\ flight'.status = "404"
                   /\ flight'.engine = NoFlight.engine
                   /\ ~flight'.invoked
    /\ (flight.pc # "none" /\ flight'.pc # "none") =>
          /\ flight'.engine = flight.engine
          /\ flight'.arg = flight.arg

\* C28: a webhook request for slug S is given to the engine registered
\* under lowercased S when it is dispatched and to no other; without such
\* an engine the answer is 404 and no engine is invoked; the answer is 500
\* when reading the request body or handle_update raises (handle_update is
\* not invoked in the first case), and 200 otherwise.
C28_WebhookRouting ==
    [][/\ RoutedToOwnEngine
       /\ IsAnswer =>
             /\ flight'.status = IF flight'.raised \in {"body", "handle_update"}
                                 THEN "500" ELSE "200"
             /\ flight'.invoked <=> flight'.raised # "body"]_vars

\* A request for 'Shop', while another tenant is registered too, carried a
\* body that is not JSON
C28_Witness ==
    /\ flight.pc = "done"
    /\ flight.arg = Str_Shop
    /\ flight.status = "500"
    /\ flight.raised = "body"
    /\ ~flight.invoked
    /\ DOMAIN engines = {Str_shop, Str_pets}

\* C28 as stated: 500 exactly when handle_update raises, 200 otherwise
C28_AsStated ==
    [][/\ RoutedToOwnEngine
       /\ IsAnswer =>
             flight'.status = IF flight'.raised = "handle_update"
                              THEN "500" ELSE "200"]_vars

=============================================================================
